---------------------------- MODULE Spec2Model ----------------------------
(***************************************************************************)
(* Wallet message codecs of wallet/messages.go: the fixed-slot payload     *)
(* (PayloadV1toV4), the dictionary payload (PayloadHighload), the action   *)
(* chain (SendMessageList), the two signature schemes and the raw-message  *)
(* facade (ExtractRawMessages).                                            *)
(*                                                                         *)
(* A cell is a record [bits, pos, refs, refCursor]: the written bits, the  *)
(* number of bits already read, the attached child cells and the number of *)
(* children already taken.  Child cells are held by value, with their own  *)
(* cursors at the start.                                                   *)
(***************************************************************************)
EXTENDS Integers, Sequences, FiniteSets, TLC

VARIABLES
    op,         \* the operation under way: which entry point the caller uses
    pc,         \* "start", "marshalled" (after an encoder ran) or "done"
    p,          \* the payload list handed to an encoder (or laid out in a message)
    c0,         \* the cell as the caller handed it over
    c,          \* the cell the operation works on, cursors included
    q,          \* the list a decoder has produced (<<>> while unassigned)
    err,        \* the error the last call returned, "nil" for none
    ver,        \* the wallet version given to ExtractRawMessages
    layout,     \* how the input cell was laid out: generation, header, signature
    publicKey,  \* the key given to a verifier
    hashErr,    \* the error Hash() returns to a verifier, "nil" for none
    chk         \* what the signature primitive was called with, if it was

vars == <<op, pc, p, c0, c, q, err, ver, layout, publicKey, hashErr, chk>>

----------------------------------------------------------------------------
(* Bounds of the model and constants of the program *)

MaxLen == 5             \* longest list handed to the fixed-slot encoder
MaxShort == 3           \* longest list handed to the dictionary encoder entry by entry
MaxChain == 3           \* longest action chain drawn node by node
MaxRawBits == 34        \* most bits of a payload cell drawn bit count by bit count
MaxMsgLen == 2          \* longest list laid out in a whole message
MaxSimple == 4          \* len(p) > 4
MaxHighload == 254      \* len(p) > 254
SigBits == 512          \* totalBits < 512, tlb.Bits512
ActionBits == 40        \* case 40
ModeBits == 8           \* ReadUint(8), WriteUint(.., 8)
CellBits == 1023        \* bit capacity of one cell
CellRefs == 4           \* reference capacity of one cell

Modes == {3, 128}
Bit == {0, 1}

----------------------------------------------------------------------------
(* The cell primitive (package boc) *)

NewCell == [bits |-> <<>>, pos |-> 0, refs |-> <<>>, refCursor |-> 0]

\* the n lowest bits of v, most significant first (v is below 2^31)
UintBits(v, n) == [i \in 1..n |-> IF n - i >= 31 THEN 0 ELSE (v \div 2^(n - i)) % 2]

RECURSIVE BitsUint(_)
\* the unsigned value of a bit string, most significant bit first
BitsUint(s) ==
    IF s = <<>> THEN 0 ELSE 2 * BitsUint(SubSeq(s, 1, Len(s) - 1)) + s[Len(s)]

BitsAvailableForRead(cell) == Len(cell.bits) - cell.pos

RefsSize(cell) == Len(cell.refs)

\* WriteBitString: append bits, or fail when the cell would overflow
WriteBitString(cell, s) ==
    IF Len(cell.bits) + Len(s) > CellBits
    THEN [err |-> "ErrBitStringOverflow", cell |-> cell]
    ELSE [err |-> "nil", cell |-> [cell EXCEPT !.bits = cell.bits \o s]]

WriteUint(cell, v, n) == WriteBitString(cell, UintBits(v, n))

WriteBit(cell, b) == WriteBitString(cell, <<IF b THEN 1 ELSE 0>>)

\* AddRef: attach a child in the first free slot, or fail when all are taken
AddRef(cell, ref) ==
    IF Len(cell.refs) >= CellRefs
    THEN [err |-> "ErrCellRefsOverflow", cell |-> cell]
    ELSE [err |-> "nil", cell |-> [cell EXCEPT !.refs = Append(cell.refs, ref)]]

\* ReadBits: the next n unread bits, advancing the read cursor
ReadBits(cell, n) ==
    IF n > BitsAvailableForRead(cell)
    THEN [err |-> "ErrNotEnoughBits", val |-> <<>>, cell |-> cell]
    ELSE [err |-> "nil",
          val |-> SubSeq(cell.bits, cell.pos + 1, cell.pos + n),
          cell |-> [cell EXCEPT !.pos = cell.pos + n]]

ReadUint(cell, n) ==
    LET Value(r) ==
            [err |-> r.err, val |-> IF r.err = "nil" THEN BitsUint(r.val) ELSE 0,
             cell |-> r.cell]
    IN  Value(ReadBits(cell, n))

\* NextRef: the next child not yet taken, advancing the reference cursor
NextRef(cell) ==
    IF cell.refCursor >= Len(cell.refs)
    THEN [err |-> "ErrNotEnoughRefs", val |-> NewCell, cell |-> cell]
    ELSE [err |-> "nil", val |-> cell.refs[cell.refCursor + 1],
          cell |-> [cell EXCEPT !.refCursor = cell.refCursor + 1]]

\* Hash: the content hash covers every bit and every child, whatever the
\* cursors; it is represented by the content itself (no collisions)
Hash(cell) == [bits |-> cell.bits, refs |-> cell.refs]

\* a destination cell: a leaf told apart by its content
Dest(k) == [bits |-> UintBits(k, 4), pos |-> 0, refs |-> <<>>, refCursor |-> 0]

Dests == {Dest(5), Dest(10)}

RawMessage(message, mode) == [Message |-> message, Mode |-> mode]

RawMessages == {RawMessage(d, m) : d \in Dests, m \in Modes}

----------------------------------------------------------------------------
(* Fixed-slot payload codec *)

RECURSIVE WriteV1toV4(_, _, _)
\* the loop of PayloadV1toV4.MarshalTLB from entry i on
WriteV1toV4(cell, list, i) ==
    LET Added(a) == IF a.err # "nil" THEN a ELSE WriteV1toV4(a.cell, list, i + 1)
        Written(w) == IF w.err # "nil" THEN w ELSE Added(AddRef(w.cell, list[i].Message))
    IN  IF i > Len(list) THEN [err |-> "nil", cell |-> cell]
        ELSE Written(WriteUint(cell, list[i].Mode, ModeBits))

\* mutant: the capacity check off by one
PayloadV1toV4MarshalOffByOne(list, cell) ==
    IF Len(list) >= MaxSimple
    THEN [err |-> "CapacityV1toV4", cell |-> cell]
    ELSE WriteV1toV4(cell, list, 1)

PayloadV1toV4Marshal(list, cell) ==
    IF Len(list) > MaxSimple
    THEN [err |-> "CapacityV1toV4", cell |-> cell]
    ELSE WriteV1toV4(cell, list, 1)

RECURSIVE PayloadV1toV4Unmarshal(_, _)
\* PayloadV1toV4.UnmarshalTLB: list is *p, appended to in place
PayloadV1toV4Unmarshal(list, cell) ==
    LET Mode(ref, mode) ==
            IF mode.err # "nil" THEN [err |-> mode.err, list |-> list, cell |-> mode.cell]
            ELSE PayloadV1toV4Unmarshal(
                     Append(list, RawMessage(ref.val, mode.val)), mode.cell)
        Ref(ref) ==
            IF ref.err # "nil" THEN [err |-> "nil", list |-> list, cell |-> cell]
            ELSE Mode(ref, ReadUint(ref.cell, ModeBits))
    IN  Ref(NextRef(cell))

----------------------------------------------------------------------------
(* The dictionary (tlb.Hashmap with tlb.Uint16 keys): a binary trie of     *)
(* cells.  A cell above the leaves holds two bits, child present on the 0  *)
(* side and on the 1 side, and a reference to each child present; a cell   *)
(* at depth KeyBits holds the value.  A dictionary without entries is a    *)
(* root without children.                                                  *)

KeyBits == 16           \* tlb.Uint16

HashmapItem(key, value) == [key |-> key, value |-> value]

\* NewHashmap: entry i of values under entry i of keys
NewHashmap(keys, values) ==
    {HashmapItem(UintBits(keys[i], KeyBits), values[i]) : i \in 1..Len(keys)}

RECURSIVE HashmapMarshal(_, _)
\* the cell of the sub-trie holding items, all of which agree on depth key bits
HashmapMarshal(items, depth) ==
    IF depth = KeyBits
    THEN LET v == (CHOOSE e \in items : TRUE).value
         IN  [bits |-> SubSeq(v.bits, v.pos + 1, Len(v.bits)), pos |-> 0,
              refs |-> SubSeq(v.refs, v.refCursor + 1, Len(v.refs)),
              refCursor |-> 0]
    ELSE LET left == {e \in items : e.key[depth + 1] = 0}
             right == {e \in items : e.key[depth + 1] = 1}
         IN  [bits |-> <<IF left = {} THEN 0 ELSE 1, IF right = {} THEN 0 ELSE 1>>,
              pos |-> 0,
              refs |-> (IF left = {} THEN <<>>
                        ELSE <<HashmapMarshal(left, depth + 1)>>)
                       \o (IF right = {} THEN <<>>
                           ELSE <<HashmapMarshal(right, depth + 1)>>),
              refCursor |-> 0]

\* the items of both sides of a fork, or the error of the first side that has one
HashmapJoin(l, r) ==
    IF l.err # "nil" THEN l
    ELSE IF r.err # "nil" THEN r
    ELSE [err |-> "nil", items |-> l.items \o r.items]

RECURSIVE HashmapUnmarshal(_, _)
\* the items below a trie cell reached by the key bits prefix, keys ascending
HashmapUnmarshal(cell, prefix) ==
    IF Len(prefix) = KeyBits
    THEN [err |-> "nil", items |-> <<HashmapItem(prefix, cell)>>]
    ELSE IF BitsAvailableForRead(cell) < 2
    THEN [err |-> "ErrNotEnoughBits", items |-> <<>>]
    ELSE IF RefsSize(cell) < cell.bits[cell.pos + 1] + cell.bits[cell.pos + 2]
    THEN [err |-> "ErrNotEnoughRefs", items |-> <<>>]
    ELSE HashmapJoin(
             IF cell.bits[cell.pos + 1] = 1
             THEN HashmapUnmarshal(cell.refs[1], Append(prefix, 0))
             ELSE [err |-> "nil", items |-> <<>>],
             IF cell.bits[cell.pos + 2] = 1
             THEN HashmapUnmarshal(cell.refs[cell.bits[cell.pos + 1] + 1], Append(prefix, 1))
             ELSE [err |-> "nil", items |-> <<>>])

\* HashmapE: one marker bit, which must be set, then the reference to the root
HashmapEUnmarshal(cell) ==
    LET Tree(r, m) == [err |-> m.err, items |-> m.items, cell |-> r.cell]
        Root(r) ==
            IF r.err # "nil" THEN [err |-> r.err, items |-> <<>>, cell |-> r.cell]
            ELSE Tree(r, HashmapUnmarshal(r.val, <<>>))
        Marker(b) ==
            IF b.err # "nil" THEN [err |-> b.err, items |-> <<>>, cell |-> b.cell]
            ELSE IF b.val[1] # 1
            THEN [err |-> "ErrNoMarker", items |-> <<>>, cell |-> b.cell]
            ELSE Root(NextRef(b.cell))
    IN  Marker(ReadBits(cell, 1))

----------------------------------------------------------------------------
(* Dictionary payload codec *)

\* the value cell of one entry: the mode, then the message as a reference
HighloadValue(msg) ==
    AddRef(WriteUint(NewCell, msg.Mode, ModeBits).cell, msg.Message).cell

\* mutant: every entry under key 0
HighloadKeysConstant(list) == [i \in 1..Len(list) |-> 0]

\* entry i is keyed by its 0-based position
HighloadKeys(list) == [i \in 1..Len(list) |-> i - 1]

HighloadValues(list) == [i \in 1..Len(list) |-> HighloadValue(list[i])]

\* mutant: the capacity check after the encoding work, on what fits
PayloadHighloadMarshalLate(list, cell) ==
    LET Marked(b, dict) == IF b.err # "nil" THEN b ELSE AddRef(b.cell, dict)
        Built(hashmap) == Marked(WriteBit(cell, TRUE), HashmapMarshal(hashmap, 0))
        Checked(r) ==
            IF Len(list) > MaxHighload THEN [err |-> "CapacityHighload", cell |-> r.cell]
            ELSE r
        Encoded(fits) == Built(NewHashmap(HighloadKeys(fits), HighloadValues(fits)))
    IN  Checked(Encoded(IF Len(list) > MaxHighload THEN SubSeq(list, 1, MaxHighload)
                        ELSE list))

PayloadHighloadMarshal(list, cell) ==
    LET Marked(b, dict) == IF b.err # "nil" THEN b ELSE AddRef(b.cell, dict)
        Built(hashmap) == Marked(WriteBit(cell, TRUE), HashmapMarshal(hashmap, 0))
    IN  IF Len(list) > MaxHighload THEN [err |-> "CapacityHighload", cell |-> cell]
        ELSE Built(NewHashmap(HighloadKeys(list), HighloadValues(list)))

\* one turn of the loop of PayloadHighload.UnmarshalTLB: the value cell of an
\* item read as a mode and a message
HighloadItem(item) ==
    LET mode == ReadUint(item.value, ModeBits)
        msg == NextRef(mode.cell)
    IN  IF mode.err # "nil" THEN [err |-> "FailedToReadMode", val |-> <<>>]
        ELSE IF msg.err # "nil" THEN [err |-> "FailedToReadMsg", val |-> <<>>]
        ELSE [err |-> "nil", val |-> RawMessage(msg.val, mode.val)]

\* the loop over m.Items(), in their order: it returns at the first item that
\* cannot be read
HighloadItems(items) ==
    LET read == [i \in 1..Len(items) |-> HighloadItem(items[i])]
        bad == {i \in 1..Len(items) : read[i].err # "nil"}
    IN  IF bad = {} THEN [err |-> "nil", list |-> [i \in 1..Len(items) |-> read[i].val]]
        ELSE [err |-> read[CHOOSE i \in bad : \A j \in bad : i <= j].err, list |-> <<>>]

\* PayloadHighload.UnmarshalTLB: list is *p, assigned only on success
PayloadHighloadUnmarshal(list, cell) ==
    LET Items(m, r) ==
            [err |-> r.err, list |-> IF r.err = "nil" THEN r.list ELSE list,
             cell |-> m.cell]
        Map(m) ==
            IF m.err # "nil" THEN [err |-> m.err, list |-> list, cell |-> m.cell]
            ELSE Items(m, HighloadItems(m.items))
    IN  Map(HashmapEUnmarshal(cell))

----------------------------------------------------------------------------
(* Action chain *)

ActionMagic == 247711853    \* tlb:"#0ec3c86d"

\* the reflective decoder on a SendMessageAction: Magic, Mode, then Msg as
\* the next reference of the cell
SendMessageActionUnmarshal(cell) ==
    LET Msg(mode, msg) ==
            IF msg.err # "nil" THEN [err |-> msg.err, val |-> <<>>, cell |-> msg.cell]
            ELSE [err |-> "nil", val |-> [Mode |-> mode.val, Msg |-> msg.val],
                  cell |-> msg.cell]
        Mode(mode) ==
            IF mode.err # "nil" THEN [err |-> mode.err, val |-> <<>>, cell |-> mode.cell]
            ELSE Msg(mode, NextRef(mode.cell))
        Magic(magic) ==
            IF magic.err # "nil"
            THEN [err |-> magic.err, val |-> <<>>, cell |-> magic.cell]
            ELSE IF magic.val # UintBits(ActionMagic, 32)
            THEN [err |-> "ErrMagicMismatch", val |-> <<>>, cell |-> magic.cell]
            ELSE Mode(ReadUint(magic.cell, ModeBits))
    IN  Magic(ReadBits(cell, 32))

RECURSIVE SendMessageListLoopActionFirst(_, _, _)
\* mutant: the action decoded before the next node is taken, so that the
\* first reference becomes the message and the second the next node
SendMessageListLoopActionFirst(cell, actions, old) ==
    LET Next(action, next) ==
            IF next.err # "nil" THEN [err |-> next.err, Actions |-> old]
            ELSE SendMessageListLoopActionFirst(next.val, Append(actions, action.val), old)
        Action(action) ==
            IF action.err # "nil" THEN [err |-> action.err, Actions |-> old]
            ELSE Next(action, NextRef(action.cell))
    IN  IF BitsAvailableForRead(cell) = 0 THEN [err |-> "nil", Actions |-> actions]
        ELSE IF BitsAvailableForRead(cell) = ActionBits
        THEN Action(SendMessageActionUnmarshal(cell))
        ELSE [err |-> "UnexpectedBits", Actions |-> old]

RECURSIVE SendMessageListLoopPartial(_, _, _)
\* mutant: the actions decoded so far assigned when a node is rejected
SendMessageListLoopPartial(cell, actions, old) ==
    LET Action(next, action) ==
            IF action.err # "nil" THEN [err |-> action.err, Actions |-> actions]
            ELSE SendMessageListLoopPartial(next.val, Append(actions, action.val), old)
        Node(next) ==
            IF next.err # "nil" THEN [err |-> next.err, Actions |-> actions]
            ELSE Action(next, SendMessageActionUnmarshal(next.cell))
    IN  IF BitsAvailableForRead(cell) = 0 THEN [err |-> "nil", Actions |-> actions]
        ELSE IF BitsAvailableForRead(cell) = ActionBits THEN Node(NextRef(cell))
        ELSE [err |-> "UnexpectedBits", Actions |-> actions]

RECURSIVE SendMessageListLoop(_, _, _)
\* the loop of SendMessageList.UnmarshalTLB: cell is the node c stands on,
\* actions the local list, old what l.Actions held before the call
SendMessageListLoop(cell, actions, old) ==
    LET Action(next, action) ==
            IF action.err # "nil" THEN [err |-> action.err, Actions |-> old]
            ELSE SendMessageListLoop(next.val, Append(actions, action.val), old)
        Node(next) ==
            IF next.err # "nil" THEN [err |-> next.err, Actions |-> old]
            ELSE Action(next, SendMessageActionUnmarshal(next.cell))
    IN  IF BitsAvailableForRead(cell) = 0 THEN [err |-> "nil", Actions |-> actions]
        ELSE IF BitsAvailableForRead(cell) = ActionBits THEN Node(NextRef(cell))
        ELSE [err |-> "UnexpectedBits", Actions |-> old]

\* the head node after the call: the loop reads from it in its first turn only
HeadAfter(cell) ==
    LET Node(next) ==
            IF next.err # "nil" THEN next.cell
            ELSE SendMessageActionUnmarshal(next.cell).cell
    IN  IF BitsAvailableForRead(cell) = ActionBits THEN Node(NextRef(cell)) ELSE cell

SendMessageListUnmarshal(old, cell) ==
    LET Done(r) == [err |-> r.err, Actions |-> r.Actions, cell |-> HeadAfter(cell)]
    IN  Done(SendMessageListLoop(cell, <<>>, old))

----------------------------------------------------------------------------
(* Signatures *)

Keys == {1, 2}

\* the bytes of a bit string whose length is a multiple of 8
BitsBytes(s) == [i \in 1..(Len(s) \div 8) |-> BitsUint(SubSeq(s, 8 * i - 7, 8 * i))]

RECURSIVE WeightedSum(_, _, _)
\* the sum of (i + 1) * s[i] over lo..hi, modulo 251
WeightedSum(s, lo, hi) ==
    IF lo > hi THEN 0
    ELSE IF lo = hi THEN ((lo + 1) * s[lo]) % 251
    ELSE LET mid == (lo + hi) \div 2
         IN  (WeightedSum(s, lo, mid) + WeightedSum(s, mid + 1, hi)) % 251

RECURSIVE CellDigest(_)
\* a number standing for the content of a cell in a signature
CellDigest(h) ==
    LET sub == [j \in 1..Len(h.refs) |->
                   1 + CellDigest([bits |-> h.refs[j].bits, refs |-> h.refs[j].refs])]
    IN  (WeightedSum(h.bits, 1, Len(h.bits)) + 3 * Len(h.bits)
         + 5 * WeightedSum(sub, 1, Len(sub))) % 251

\* the signature key makes of hash: 64 bytes
SignDigest(key, digest) ==
    [i \in 1..(SigBits \div 8) |-> (key * 97 + digest * i + i) % 256]

Ed25519Sign(key, hash) == SignDigest(key, CellDigest(hash))

\* ed25519.Verify as a predicate of key, hash and signature
Ed25519Verify(key, hash, sig) == sig = Ed25519Sign(key, hash)

\* the outcome of a verifier: whether and with what the primitive was called
NotCompared(e) == [err |-> e, called |-> FALSE, hash |-> Hash(NewCell), sig |-> <<>>]

\* mutant: the outcome of the comparison inverted
ComparedInverted(key, hash, sig) ==
    [err |-> IF Ed25519Verify(key, hash, sig) THEN "ErrBadSignature" ELSE "nil",
     called |-> TRUE, hash |-> hash, sig |-> sig]

Compared(key, hash, sig) ==
    [err |-> IF Ed25519Verify(key, hash, sig) THEN "nil" ELSE "ErrBadSignature",
     called |-> TRUE, hash |-> hash, sig |-> sig]

\* SignedMsgBody.Verify; herr is the error msg.Hash() returns, "nil" for none
SignedMsgBodyVerify(body, key, herr) ==
    IF herr # "nil" THEN NotCompared(herr)
    ELSE Compared(key, Hash(body.Message), BitsBytes(body.Sign))

RECURSIVE CopyRefsRemaining(_, _, _)
\* mutant: the loop bounded by the references not yet taken, which each turn
\* lowers by one
CopyRefsRemaining(msgBody, msgCopy, i) ==
    LET Added(ref, a) ==
            IF a.err # "nil" THEN a ELSE CopyRefsRemaining(ref.cell, a.cell, i + 1)
        Ref(ref) ==
            IF ref.err # "nil" THEN [err |-> ref.err, cell |-> msgCopy]
            ELSE Added(ref, AddRef(msgCopy, ref.val))
    IN  IF ~(i < RefsSize(msgBody) - msgBody.refCursor)
        THEN [err |-> "nil", cell |-> msgCopy]
        ELSE Ref(NextRef(msgBody))

RECURSIVE CopyRefs(_, _, _)
\* the loop of MessageV5VerifySignature that re-attaches the references
CopyRefs(msgBody, msgCopy, i) ==
    LET Added(ref, a) == IF a.err # "nil" THEN a ELSE CopyRefs(ref.cell, a.cell, i + 1)
        Ref(ref) ==
            IF ref.err # "nil" THEN [err |-> ref.err, cell |-> msgCopy]
            ELSE Added(ref, AddRef(msgCopy, ref.val))
    IN  IF ~(i < RefsSize(msgBody)) THEN [err |-> "nil", cell |-> msgCopy]
        ELSE Ref(NextRef(msgBody))

MessageV5VerifySignature(msgBody, key, herr) ==
    LET Hashed(signature, msgCopy) ==
            IF msgCopy.err # "nil" THEN NotCompared(msgCopy.err)
            ELSE IF herr # "nil" THEN NotCompared(herr)
            ELSE Compared(key, Hash(msgCopy.cell), BitsBytes(signature.val))
        Copied(signature, w) ==
            IF w.err # "nil" THEN NotCompared(w.err)
            ELSE Hashed(signature, CopyRefs(signature.cell, w.cell, 0))
        Signature(bits, signature) ==
            IF signature.err # "nil" THEN NotCompared(signature.err)
            ELSE Copied(signature, WriteBitString(NewCell, bits.val))
        Bits(bits) ==
            IF bits.err # "nil" THEN NotCompared(bits.err)
            ELSE Signature(bits, ReadBits(bits.cell, SigBits))
    IN  IF BitsAvailableForRead(msgBody) < SigBits THEN NotCompared("NotEnoughBitsInCell")
        ELSE Bits(ReadBits(msgBody, BitsAvailableForRead(msgBody) - SigBits))

----------------------------------------------------------------------------
(* Envelopes and the raw-message facade *)

Supported == {"V5R1", "V4R1", "V4R2", "V3R1", "V3R2", "HighLoadV2R2"}

Versions == Supported \cup {"V1R1", "HighLoadV1R1"}

SintMagic == 1936289396     \* tlbSumType:"#73696e74"
SignMagic == 1936287598     \* tlbSumType:"#7369676e"

\* the widths of the fields declared ahead of the payload
MessageV3Fields == <<32, 32, 32>>
MessageV4Fields == <<32, 32, 32, 8>>
HighloadV2Fields == <<32, 64>>
MessageV5Fields == <<80, 32, 32, 1, SigBits>>

RECURSIVE ReadFields(_, _)
\* the reflective decoder on fixed-width fields, in declaration order
ReadFields(cell, widths) ==
    IF widths = <<>> THEN [err |-> "nil", cell |-> cell]
    ELSE LET r == ReadBits(cell, Head(widths))
         IN  IF r.err # "nil" THEN [err |-> r.err, cell |-> r.cell]
             ELSE ReadFields(r.cell, Tail(widths))

\* tlb.Any: everything not yet read of a cell, as a cell of its own
AnyUnmarshal(cell) ==
    [val |-> [bits |-> SubSeq(cell.bits, cell.pos + 1, Len(cell.bits)), pos |-> 0,
              refs |-> SubSeq(cell.refs, cell.refCursor + 1, Len(cell.refs)),
              refCursor |-> 0],
     cell |-> [cell EXCEPT !.pos = Len(cell.bits), !.refCursor = Len(cell.refs)]]

\* extractSignedMsgBody, from the body of the message on: msg stands at its body
extractSignedMsgBody(msg) ==
    LET Sign(bodyCell, sign) ==
            IF sign.err # "nil"
            THEN [err |-> sign.err, body |-> <<>>, cell |-> bodyCell.cell]
            ELSE [err |-> "nil",
                  body |-> [Sign |-> sign.val, Message |-> AnyUnmarshal(sign.cell).val],
                  cell |-> bodyCell.cell]
        Body(bodyCell) == Sign(bodyCell, ReadBits(bodyCell.val, SigBits))
    IN  Body(AnyUnmarshal(msg))

\* what a decoder of a payload hands back: the list on success only
Decoded(r) == [err |-> r.err, RawMessages |-> IF r.err = "nil" THEN r.list ELSE <<>>]

decodeMessageV3(body) ==
    LET Fields(h) ==
            IF h.err # "nil" THEN [err |-> h.err, RawMessages |-> <<>>]
            ELSE Decoded(PayloadV1toV4Unmarshal(<<>>, h.cell))
    IN  Fields(ReadFields(body.Message, MessageV3Fields))

decodeMessageV4(body) ==
    LET Fields(h) ==
            IF h.err # "nil" THEN [err |-> h.err, RawMessages |-> <<>>]
            ELSE Decoded(PayloadV1toV4Unmarshal(<<>>, h.cell))
    IN  Fields(ReadFields(body.Message, MessageV4Fields))

decodeHighloadV2Message(body) ==
    LET Fields(h) ==
            IF h.err # "nil" THEN [err |-> h.err, RawMessages |-> <<>>]
            ELSE Decoded(PayloadHighloadUnmarshal(<<>>, h.cell))
    IN  Fields(ReadFields(body.Message, HighloadV2Fields))

\* DecodeMessageV5, from the body on: the variant by its tag, the fields, then
\* the action chain behind the next reference
DecodeMessageV5(msg) ==
    LET Fail(bodyCell, e) ==
            [err |-> e, val |-> [SumType |-> "", Actions |-> <<>>], cell |-> bodyCell.cell]
        Actions(bodyCell, tag, l) ==
            IF l.err # "nil" THEN Fail(bodyCell, l.err)
            ELSE [err |-> "nil",
                  val |-> [SumType |-> IF tag.val = UintBits(SintMagic, 32)
                                       THEN "Sint" ELSE "Sign",
                           Actions |-> l.Actions],
                  cell |-> bodyCell.cell]
        Chain(bodyCell, tag, head) ==
            IF head.err # "nil" THEN Fail(bodyCell, head.err)
            ELSE Actions(bodyCell, tag, SendMessageListUnmarshal(<<>>, head.val))
        Fields(bodyCell, tag, h) ==
            IF h.err # "nil" THEN Fail(bodyCell, h.err)
            ELSE Chain(bodyCell, tag, NextRef(h.cell))
        Tag(bodyCell, tag) ==
            IF tag.err # "nil" THEN Fail(bodyCell, tag.err)
            ELSE IF tag.val \notin {UintBits(SintMagic, 32), UintBits(SignMagic, 32)}
            THEN Fail(bodyCell, "ErrMagicMismatch")
            ELSE Fields(bodyCell, tag, ReadFields(tag.cell, MessageV5Fields))
        Body(bodyCell) == Tag(bodyCell, ReadBits(bodyCell.val, 32))
    IN  Body(AnyUnmarshal(msg))

\* mutant: the Sign variant left out
MessageV5RawMessagesSintOnly(m) ==
    IF m.SumType = "Sint"
    THEN [i \in 1..Len(m.Actions) |-> RawMessage(m.Actions[i].Msg, m.Actions[i].Mode)]
    ELSE <<>>

\* MessageV5.RawMessages
MessageV5RawMessages(m) ==
    IF m.SumType = "Sint"
    THEN [i \in 1..Len(m.Actions) |-> RawMessage(m.Actions[i].Msg, m.Actions[i].Mode)]
    ELSE IF m.SumType = "Sign"
    THEN [i \in 1..Len(m.Actions) |-> RawMessage(m.Actions[i].Msg, m.Actions[i].Mode)]
    ELSE <<>>

\* what a decoder behind the signed envelope returns to ExtractRawMessages
SignedResult(e, d) ==
    IF d.err # "nil" THEN [err |-> d.err, list |-> <<>>, cell |-> e.cell]
    ELSE [err |-> "nil", list |-> d.RawMessages, cell |-> e.cell]

DecodeMessageV3(msg) ==
    LET Envelope(e) ==
            IF e.err # "nil" THEN [err |-> e.err, list |-> <<>>, cell |-> e.cell]
            ELSE SignedResult(e, decodeMessageV3(e.body))
    IN  Envelope(extractSignedMsgBody(msg))

DecodeMessageV4(msg) ==
    LET Envelope(e) ==
            IF e.err # "nil" THEN [err |-> e.err, list |-> <<>>, cell |-> e.cell]
            ELSE SignedResult(e, decodeMessageV4(e.body))
    IN  Envelope(extractSignedMsgBody(msg))

DecodeHighloadV2Message(msg) ==
    LET Envelope(e) ==
            IF e.err # "nil" THEN [err |-> e.err, list |-> <<>>, cell |-> e.cell]
            ELSE SignedResult(e, decodeHighloadV2Message(e.body))
    IN  Envelope(extractSignedMsgBody(msg))

\* mutant: an unknown version decoded as the latest simple generation
ExtractRawMessagesFallThrough(version, msg) ==
    LET V5(v5) ==
            IF v5.err # "nil" THEN [err |-> v5.err, list |-> <<>>, cell |-> v5.cell]
            ELSE [err |-> "nil", list |-> MessageV5RawMessages(v5.val), cell |-> v5.cell]
    IN  IF version = "V5R1" THEN V5(DecodeMessageV5(msg))
        ELSE IF version \in {"V3R1", "V3R2"} THEN DecodeMessageV3(msg)
        ELSE IF version = "HighLoadV2R2" THEN DecodeHighloadV2Message(msg)
        ELSE DecodeMessageV4(msg)

ExtractRawMessages(version, msg) ==
    LET V5(v5) ==
            IF v5.err # "nil" THEN [err |-> v5.err, list |-> <<>>, cell |-> v5.cell]
            ELSE [err |-> "nil", list |-> MessageV5RawMessages(v5.val), cell |-> v5.cell]
    IN  IF version = "V5R1" THEN V5(DecodeMessageV5(msg))
        ELSE IF version \in {"V4R1", "V4R2"} THEN DecodeMessageV4(msg)
        ELSE IF version \in {"V3R1", "V3R2"} THEN DecodeMessageV3(msg)
        ELSE IF version = "HighLoadV2R2" THEN DecodeHighloadV2Message(msg)
        ELSE [err |-> "VersionNotSupported", list |-> <<>>, cell |-> msg]

\* the versions VerifySignature handles
SignedVersions == {"V3R1", "V3R2", "V4R1", "V4R2", "HighLoadV2R2"}

\* VerifySignature: the whole-body scheme behind the signed envelope
VerifySignature(version, msg, key, herr) ==
    LET Envelope(e) ==
            IF e.err # "nil" THEN NotCompared(e.err)
            ELSE SignedMsgBodyVerify(e.body, key, herr)
    IN  IF version \in SignedVersions
        THEN Envelope(extractSignedMsgBody(msg))
        ELSE NotCompared("VersionNotSupported")

----------------------------------------------------------------------------
(* The inputs: lists, cells and messages the operations are applied to *)

SeqsUpTo(S, n) == UNION {[1..k -> S] : k \in 0..n}

\* a list of n entries, modes and destinations varying along it
LongList(n) ==
    [i \in 1..n |-> RawMessage(IF i % 3 = 0 THEN Dest(5) ELSE Dest(10), (7 * i) % 256)]

LongLists == {LongList(n) : n \in (MaxHighload - 1)..(MaxHighload + 2)}

\* a cell that already holds one entry
UsedCell == [bits |-> UintBits(9, ModeBits), pos |-> 0, refs |-> <<Dest(5)>>, refCursor |-> 0]

\* payload cells told by their counts only: nbits bits and nrefs references
RawBits(nbits) == [i \in 1..nbits |-> IF i % 3 = 0 THEN 1 ELSE 0]

RawCell(nbits, nrefs) ==
    [bits |-> RawBits(nbits), pos |-> 0,
     refs |-> [j \in 1..nrefs |-> IF j % 2 = 0 THEN Dest(5) ELSE Dest(10)],
     refCursor |-> 0]

RawCells == {RawCell(b, r) : b \in 0..MaxRawBits, r \in 0..CellRefs}

\* the nodes of an action chain, well formed or not
NodeKinds == {"good", "bits41", "badtag", "oneRef", "noRef"}

NodeSpec(kind, message, mode) == [kind |-> kind, Message |-> message, Mode |-> mode]

NodeSpecs ==
    {NodeSpec("good", m.Message, m.Mode) : m \in RawMessages}
    \cup {NodeSpec(k, Dest(5), 3) : k \in NodeKinds \ {"good"}}

Terminals == {"empty", "bits1"}

TerminalCell(t) ==
    [bits |-> IF t = "empty" THEN <<>> ELSE <<1>>, pos |-> 0, refs |-> <<>>, refCursor |-> 0]

NodeCell(n, next) ==
    [bits |-> UintBits(IF n.kind = "badtag" THEN ActionMagic + 1 ELSE ActionMagic, 32)
              \o UintBits(n.Mode, ModeBits)
              \o (IF n.kind = "bits41" THEN <<0>> ELSE <<>>),
     pos |-> 0,
     refs |-> IF n.kind = "noRef" THEN <<>>
              ELSE IF n.kind = "oneRef" THEN <<next>>
              ELSE <<next, n.Message>>,
     refCursor |-> 0]

RECURSIVE ChainCell(_, _)
\* the head of the chain of the given nodes, ended by terminal t
ChainCell(nodes, t) ==
    IF nodes = <<>> THEN TerminalCell(t)
    ELSE NodeCell(Head(nodes), ChainCell(Tail(nodes), t))

\* the chain a list of raw messages is sent as
GoodNodes(list) == [i \in 1..Len(list) |-> NodeSpec("good", list[i].Message, list[i].Mode)]

\* the signature bits a signer puts in a message
BytesBits(bytes) ==
    [i \in 1..(8 * Len(bytes)) |-> (bytes[((i - 1) \div 8) + 1] \div 2^(7 - ((i - 1) % 8))) % 2]

SigKinds == {"key1", "key2", "short"}

\* signed by key 1, by key 2, or by key 1 and one bit short
SignatureBits(kind, content) ==
    LET Cut(s) == IF kind = "short" THEN SubSeq(s, 1, SigBits - 1) ELSE s
    IN  Cut(BytesBits(Ed25519Sign(IF kind = "key2" THEN 2 ELSE 1, Hash(content))))

Layouts ==
    [gen : {"V3", "V4", "HL", "V5"}, seqno : {0, 5}, opsel : {0, 3},
     variant : {"Sint", "Sign"}, sig : SigKinds, term : {""}]

NoLayout ==
    [gen |-> "", seqno |-> 0, opsel |-> 0, variant |-> "", sig |-> "", term |-> ""]

\* the header and payload of a message of the signed-envelope generations
InnerCell(l, list) ==
    LET Payload(cell) ==
            IF l.gen = "HL" THEN PayloadHighloadMarshal(list, cell).cell
            ELSE PayloadV1toV4Marshal(list, cell).cell
    IN  Payload([NewCell EXCEPT !.bits =
            UintBits(698983191, 32)
            \o (IF l.gen = "HL" THEN UintBits(l.seqno, 64)
                ELSE UintBits(1700000000, 32) \o UintBits(l.seqno, 32))
            \o (IF l.gen = "V4" THEN UintBits(l.opsel, 8) ELSE <<>>)])

\* the header of a message of the sum-type generation, with its action chain
HeadCell(l, list) ==
    [bits |-> UintBits(IF l.variant = "Sint" THEN SintMagic ELSE SignMagic, 32)
              \o UintBits(l.seqno + 11, 80) \o UintBits(1700000000, 32)
              \o UintBits(l.seqno, 32) \o <<l.opsel % 2>>,
     pos |-> 0, refs |-> <<ChainCell(GoodNodes(list), "empty")>>, refCursor |-> 0]

\* the body of a message: the cell the decoders and verifiers are given
MessageCell(l, list) ==
    LET Trailing(signed) ==
            [signed EXCEPT !.bits = signed.bits \o SignatureBits(l.sig, signed)]
        Leading(inner) ==
            [inner EXCEPT !.bits = SignatureBits(l.sig, inner) \o inner.bits]
    IN  IF l.gen = "V5" THEN Trailing(HeadCell(l, list)) ELSE Leading(InnerCell(l, list))

\* cells given to MessageV5VerifySignature: ndata bits ahead of the signature
SignedCell(ndata, nrefs, cursor, kind) ==
    LET Trailing(signed) ==
            [signed EXCEPT !.bits = signed.bits \o SignatureBits(kind, signed),
                           !.refCursor = cursor]
    IN  Trailing(RawCell(ndata, nrefs))

SignedCells ==
    {SignedCell(b, r, k, s) : b \in {0, 1, 8, 177},
                              r \in 0..CellRefs, k \in {0, 1}, s \in SigKinds}
    \ {SignedCell(b, 0, 1, s) : b \in {0, 1, 8, 177}, s \in SigKinds}

NoCheck == [called |-> FALSE, hash |-> Hash(NewCell), sig |-> <<>>]


----------------------------------------------------------------------------
(* The state machine: a caller picks an operation and its arguments (Init)  *)
(* and the operation runs; a decoder may also run on the cell an encoder    *)
(* has just written.                                                        *)

Start(o, list, cell, version, l, key, he) ==
    /\ op = o /\ pc = "start" /\ p = list /\ c0 = cell /\ c = cell /\ q = <<>> /\ err = "nil"
    /\ ver = version /\ layout = l /\ publicKey = key /\ hashErr = he
    /\ chk = NoCheck

Init ==
    \/ \E list \in SeqsUpTo(RawMessages, MaxLen), cell \in {NewCell, UsedCell} :
           Start("PayloadV1toV4.MarshalTLB", list, cell, "", NoLayout, 0, "nil")
    \/ \E cell \in RawCells :
           Start("PayloadV1toV4.UnmarshalTLB", <<>>, cell, "", NoLayout, 0, "nil")
    \/ \E list \in SeqsUpTo(RawMessages, MaxShort) \cup LongLists,
          cell \in {NewCell, UsedCell} :
           Start("PayloadHighload.MarshalTLB", list, cell, "", NoLayout, 0, "nil")
    \/ \E cell \in {RawCell(b, r) : b \in 0..1, r \in 0..1} :
           Start("PayloadHighload.UnmarshalTLB", <<>>, cell, "", NoLayout, 0, "nil")
    \/ \E nodes \in SeqsUpTo(NodeSpecs, MaxChain), t \in Terminals :
           Start("SendMessageList.UnmarshalTLB", nodes, ChainCell(nodes, t), "",
                 [NoLayout EXCEPT !.term = t], 0, "nil")
    \/ \E cell \in SignedCells, key \in Keys, he \in {"nil", "ErrHash"} :
           Start("MessageV5VerifySignature", <<>>, cell, "", NoLayout, key, he)
    \/ \E l \in Layouts, list \in SeqsUpTo(RawMessages, 1), key \in Keys,
          he \in {"nil", "ErrHash"}, version \in {"V3R2", "V4R2", "HighLoadV2R2", "V5R1"} :
           /\ l.gen # "V5" /\ l.variant = "Sint" /\ l.opsel = 0
           /\ Start("VerifySignature", list, MessageCell(l, list), version, l, key, he)
    \/ \E cell \in {RawCell(SigBits - 1, 0), RawCell(SigBits, 1)}, key \in Keys,
          version \in {"V3R2", "V5R1"} :
           Start("VerifySignature", <<>>, cell, version, NoLayout, key, "nil")
    \/ \E l \in Layouts, list \in SeqsUpTo(RawMessages, MaxMsgLen), version \in Versions :
           /\ l.sig # "key2"
           /\ l.gen # "V5" => l.variant = "Sint"
           /\ l.gen # "V4" => l.opsel = 0
           /\ Start("ExtractRawMessages", list, MessageCell(l, list), version, l, 0, "nil")

MarshalV1toV4 ==
    /\ op = "PayloadV1toV4.MarshalTLB" /\ pc = "start"
    /\ \E r \in {PayloadV1toV4Marshal(p, c)} :
           c' = r.cell /\ err' = r.err
    /\ pc' = "marshalled"
    /\ UNCHANGED <<op, p, c0, q, ver, layout, publicKey, hashErr, chk>>

UnmarshalV1toV4 ==
    /\ \/ op = "PayloadV1toV4.UnmarshalTLB" /\ pc = "start"
       \/ op = "PayloadV1toV4.MarshalTLB" /\ pc = "marshalled" /\ err = "nil"
    /\ \E r \in {PayloadV1toV4Unmarshal(q, c)} :
           c' = r.cell /\ err' = r.err /\ q' = r.list
    /\ pc' = "done"
    /\ UNCHANGED <<op, p, c0, ver, layout, publicKey, hashErr, chk>>

MarshalHighload ==
    /\ op = "PayloadHighload.MarshalTLB" /\ pc = "start"
    /\ \E r \in {PayloadHighloadMarshal(p, c)} :
           c' = r.cell /\ err' = r.err
    /\ pc' = "marshalled"
    /\ UNCHANGED <<op, p, c0, q, ver, layout, publicKey, hashErr, chk>>

UnmarshalHighload ==
    /\ \/ op = "PayloadHighload.UnmarshalTLB" /\ pc = "start"
       \/ op = "PayloadHighload.MarshalTLB" /\ pc = "marshalled" /\ err = "nil"
    /\ \E r \in {PayloadHighloadUnmarshal(q, c)} :
           c' = r.cell /\ err' = r.err /\ q' = r.list
    /\ pc' = "done"
    /\ UNCHANGED <<op, p, c0, ver, layout, publicKey, hashErr, chk>>

UnmarshalActions ==
    /\ op = "SendMessageList.UnmarshalTLB" /\ pc = "start"
    /\ \E r \in {SendMessageListUnmarshal(q, c)} :
           c' = r.cell /\ err' = r.err /\ q' = r.Actions
    /\ pc' = "done"
    /\ UNCHANGED <<op, p, c0, ver, layout, publicKey, hashErr, chk>>

VerifyV5 ==
    /\ op = "MessageV5VerifySignature" /\ pc = "start"
    /\ \E r \in {MessageV5VerifySignature(c, publicKey, hashErr)} :
           err' = r.err /\ chk' = [called |-> r.called, hash |-> r.hash, sig |-> r.sig]
    /\ pc' = "done"
    /\ UNCHANGED <<op, p, c0, c, q, ver, layout, publicKey, hashErr>>

Verify ==
    /\ op = "VerifySignature" /\ pc = "start"
    /\ \E r \in {VerifySignature(ver, c, publicKey, hashErr)} :
           err' = r.err /\ chk' = [called |-> r.called, hash |-> r.hash, sig |-> r.sig]
    /\ c' = IF ver \in SignedVersions THEN extractSignedMsgBody(c).cell ELSE c
    /\ pc' = "done"
    /\ UNCHANGED <<op, p, c0, q, ver, layout, publicKey, hashErr>>

Extract ==
    /\ op = "ExtractRawMessages" /\ pc = "start"
    /\ \E r \in {ExtractRawMessages(ver, c)} :
           c' = r.cell /\ err' = r.err /\ q' = r.list
    /\ pc' = "done"
    /\ UNCHANGED <<op, p, c0, ver, layout, publicKey, hashErr, chk>>

Next ==
    \/ MarshalV1toV4
    \/ UnmarshalV1toV4
    \/ MarshalHighload
    \/ UnmarshalHighload
    \/ UnmarshalActions
    \/ VerifyV5
    \/ Verify
    \/ Extract

Spec == Init /\ [][Next]_vars


----------------------------------------------------------------------------
(* Properties *)

Fresh == c0 = NewCell

\* C1: a list of 0 to 4 entries encoded by PayloadV1toV4.MarshalTLB into a
\* fresh cell is accepted, and PayloadV1toV4.UnmarshalTLB of the cell written
\* into an empty list succeeds with the same entries in the same order.
RoundTripV1toV4 ==
    (op = "PayloadV1toV4.MarshalTLB" /\ Fresh) =>
        /\ (pc = "marshalled" /\ Len(p) <= MaxSimple) => err = "nil"
        /\ pc = "done" => (err = "nil" /\ Len(p) <= MaxSimple /\ q = p)

RoundTripV1toV4Witness ==
    /\ op = "PayloadV1toV4.MarshalTLB" /\ Fresh /\ pc = "done"
    /\ Len(p) = MaxSimple /\ p[1] # p[2] /\ p[3].Mode # p[4].Mode /\ q = p

CapacityChecked ==
    /\ (op = "PayloadV1toV4.MarshalTLB" /\ pc = "marshalled") =>
           /\ err = "CapacityV1toV4" <=> Len(p) > MaxSimple
           /\ Len(p) > MaxSimple => c = c0
    /\ (op = "PayloadHighload.MarshalTLB" /\ pc = "marshalled") =>
           /\ err = "CapacityHighload" <=> Len(p) > MaxHighload
           /\ Len(p) > MaxHighload => c = c0

CapacityCheckedWitness ==
    /\ op = "PayloadHighload.MarshalTLB" /\ pc = "marshalled"
    /\ Len(p) = MaxHighload + 1 /\ err = "CapacityHighload" /\ c0 = UsedCell /\ c = c0

\* the chain was built of well-formed nodes only and ended by an empty node
WellFormedChain ==
    /\ \A i \in 1..Len(p) : p[i].kind = "good"
    /\ layout.term = "empty"

\* C4: SendMessageList.UnmarshalTLB on a chain of n well-formed nodes ended
\* by a node without bits returns n actions, action i with the mode and the
\* message reference of node i from the head.
ChainInOrder ==
    (op = "SendMessageList.UnmarshalTLB" /\ pc = "done" /\ WellFormedChain) =>
        /\ err = "nil"
        /\ q = [i \in 1..Len(p) |-> [Mode |-> p[i].Mode, Msg |-> p[i].Message]]

ChainInOrderWitness ==
    /\ op = "SendMessageList.UnmarshalTLB" /\ pc = "done" /\ WellFormedChain
    /\ Len(p) = MaxChain /\ p[1] # p[2] /\ p[2].Message # p[3].Message
    /\ Len(q) = MaxChain

\* C5: SendMessageList.UnmarshalTLB on a chain with a node that has neither 0
\* nor 40 unread bits, lacks a reference or carries another tag returns an
\* error and assigns no actions.
ChainStrict ==
    (op = "SendMessageList.UnmarshalTLB" /\ pc = "done" /\ ~WellFormedChain) =>
        (err # "nil" /\ q = <<>>)

ChainStrictWitness ==
    /\ op = "SendMessageList.UnmarshalTLB" /\ pc = "done"
    /\ Len(p) = MaxChain /\ p[1].kind = "good" /\ p[2].kind = "good"
    /\ p[3].kind = "bits41" /\ err = "UnexpectedBits" /\ q = <<>>

\* C6: ExtractRawMessages for a version outside the six supported returns no
\* list and the version error with the message cell and its cursors as they
\* were; no supported version ends in that error.
UnknownVersion ==
    (op = "ExtractRawMessages" /\ pc = "done") =>
        /\ ver \notin Supported => (err = "VersionNotSupported" /\ q = <<>> /\ c = c0)
        /\ ver \in Supported => err # "VersionNotSupported"

UnknownVersionWitness ==
    /\ op = "ExtractRawMessages" /\ pc = "done" /\ ver = "HighLoadV1R1"
    /\ layout.gen = "HL" /\ Len(p) = MaxMsgLen /\ err = "VersionNotSupported"

\* the signature primitive was called and accepted what it was called with
Accepted == chk.called /\ Ed25519Verify(publicKey, chk.hash, chk.sig)

\* C7: both verifiers return nil exactly when the signature primitive
\* accepts the key, the hash and the 64-byte signature, ErrBadSignature
\* exactly when it was called and rejects them; with fewer than 512 bits for
\* the signature it is not called and the error is another one.
SignatureOutcomes ==
    (op \in {"MessageV5VerifySignature", "VerifySignature"} /\ pc = "done") =>
        /\ err = "nil" <=> Accepted
        /\ err = "ErrBadSignature" <=> (chk.called /\ ~Accepted)
        /\ chk.called => Len(chk.sig) * 8 = SigBits
        /\ BitsAvailableForRead(c0) < SigBits =>
               (~chk.called /\ err \notin {"nil", "ErrBadSignature"})
        /\ (layout.sig \in {"key1", "key2"} /\ ver \in SignedVersions /\ hashErr = "nil") =>
               (err = "nil" <=> publicKey = (IF layout.sig = "key1" THEN 1 ELSE 2))

SignatureOutcomesWitness ==
    /\ op = "VerifySignature" /\ pc = "done" /\ layout.gen = "HL"
    /\ layout.sig = "key1" /\ publicKey = 2 /\ Len(p) = 1
    /\ chk.called /\ err = "ErrBadSignature"

\* the version asks for the decoder of the generation the message was laid out in
Matching ==
    \/ ver = "V5R1" /\ layout.gen = "V5"
    \/ ver \in {"V4R1", "V4R2"} /\ layout.gen = "V4"
    \/ ver \in {"V3R1", "V3R2"} /\ layout.gen = "V3"
    \/ ver = "HighLoadV2R2" /\ layout.gen = "HL"

\* C8: ExtractRawMessages on a well-formed message of a supported generation
\* returns the entries laid out in it, in their order, whatever the header
\* fields, the op selector or the variant of the sum type.
FacadeProjection ==
    (op = "ExtractRawMessages" /\ pc = "done" /\ Matching /\ layout.sig = "key1") =>
        (err = "nil" /\ q = p)

FacadeProjectionWitness ==
    /\ op = "ExtractRawMessages" /\ pc = "done" /\ ver = "V5R1" /\ layout.gen = "V5"
    /\ layout.variant = "Sign" /\ layout.sig = "key1"
    /\ Len(p) = MaxMsgLen /\ p[1] # p[2] /\ q = p

\* C9: PayloadV1toV4.UnmarshalTLB returns an error whenever the payload cell
\* does not hold exactly 8 bits for each of its references: bits left after
\* the last reference, or a reference left without 8 bits for its mode.
FixedSlotStrict ==
    (op = "PayloadV1toV4.UnmarshalTLB" /\ pc = "done"
     /\ Len(c0.bits) # ModeBits * Len(c0.refs)) => err # "nil"

\* the cell MessageV5VerifySignature is to hash: the bits of c0 ahead of the
\* last 512, with every reference of c0
Canonical ==
    [bits |-> SubSeq(c0.bits, c0.pos + 1, Len(c0.bits) - SigBits), refs |-> c0.refs]

\* C10: MessageV5VerifySignature on a cell with at least 512 unread bits and
\* its reference cursor at the start hashes a cell of the bits ahead of the
\* last 512 and of all references in their order, and verifies the last 512
\* bits against that hash.
StripTrailingSignature ==
    (op = "MessageV5VerifySignature" /\ pc = "done" /\ hashErr = "nil"
     /\ BitsAvailableForRead(c0) >= SigBits /\ c0.refCursor = 0) =>
        /\ chk.called
        /\ chk.hash = Canonical
        /\ chk.sig = BitsBytes(SubSeq(c0.bits, Len(c0.bits) - SigBits + 1, Len(c0.bits)))
        /\ err = "nil" <=> Ed25519Verify(publicKey, Canonical, chk.sig)

StripTrailingSignatureWitness ==
    /\ op = "MessageV5VerifySignature" /\ pc = "done" /\ hashErr = "nil"
    /\ Len(c0.refs) = CellRefs /\ c0.refCursor = 0
    /\ Len(c0.bits) > SigBits + ActionBits
    /\ chk.called /\ Len(chk.hash.refs) = CellRefs /\ err = "nil"


============================================================================
